---------------------------- MODULE Spec2Model ----------------------------
(***************************************************************************)
(* A model of the commerce agent: the catalog/order store and its tools    *)
(* (src/src/tools.py), the five-node request pipeline (src/src/graph.py)   *)
(* and the trace schema (src/src/schema_validator.py).                     *)
(*                                                                         *)
(* Text is a sequence of one-character strings, so that lower-casing,      *)
(* substring tests and the regular expressions of the source are computed  *)
(* on characters.  A message built by the responder is a sequence of       *)
(* strings (its literal pieces and the characters of the data it quotes).  *)
(***************************************************************************)
EXTENDS Integers, Sequences, FiniteSets, TLC

VARIABLES
    products,      \* CommerceTools.products
    orders,        \* CommerceTools.orders
    current_time,  \* the CURRENT_TIME environment value
    state,         \* the CommerceState of the run in progress
    pc,            \* the graph node to run next
    executed,      \* the nodes run so far in this run, in order
    invoked,       \* the store methods invoked so far in this run, in order
    call,          \* the last direct call of a store method and what it returned
    last           \* the outcome of the run a resubmission repeats

vars == <<products, orders, current_time, state, pc, executed, invoked, call, last>>

-----------------------------------------------------------------------------
(* Bounds *)

\* the longest input text, in chunks of Vocabulary
MaxChunks == 2

-----------------------------------------------------------------------------
(* Characters and strings *)

UpperCase == <<"A","B","C","D","E","F","G","H","I","J","K","L","M","N","O","P","Q","R","S","T","U","V","W","X","Y","Z">>
LowerCase == <<"a","b","c","d","e","f","g","h","i","j","k","l","m","n","o","p","q","r","s","t","u","v","w","x","y","z">>
Digits == <<"0","1","2","3","4","5","6","7","8","9">>

Range(s) == {s[i] : i \in DOMAIN s}

UpperSet == Range(UpperCase)
LowerSet == Range(LowerCase)
DigitSet == Range(Digits)

LetterSet == UpperSet \cup LowerSet
\* \w
WordSet == LetterSet \cup DigitSet \cup {"_"}
\* [\w\.-]
EmailSet == WordSet \cup {".", "-"}
\* \s
SpaceSet == {" ", "\t", "\n"}

LowerChar(c) ==
    IF c \in UpperSet
    THEN LowerCase[CHOOSE i \in DOMAIN UpperCase : UpperCase[i] = c]
    ELSE c

\* str.lower()
Lower(s) == [i \in DOMAIN s |-> LowerChar(s[i])]

\* s[i:] starts with sub (i is 1-based)
MatchAt(s, sub, i) ==
    /\ i >= 1
    /\ i + Len(sub) - 1 <= Len(s)
    /\ \A j \in DOMAIN sub : s[i + j - 1] = sub[j]

\* sub in s
Contains(s, sub) == \E i \in 1..(Len(s) + 1) : MatchAt(s, sub, i)

Min(a, b) == IF a <= b THEN a ELSE b

SetMin(S) == CHOOSE x \in S : \A y \in S : x <= y
SetMax(S) == CHOOSE x \in S : \A y \in S : y <= x

\* the end of the longest run of characters of S that starts at i
\* (i - 1 when s[i] is not in S)
RunEnd(s, i, S) ==
    LET stops == {k \in i..Len(s) : s[k] \notin S}
    IN  IF stops = {} THEN Len(s) ELSE SetMin(stops) - 1

\* the start of the longest run of characters of S that ends at i
\* (i + 1 when s[i] is not in S)
RunStart(s, i, S) ==
    LET stops == {k \in 1..i : s[k] \notin S}
    IN  IF stops = {} THEN 1 ELSE SetMax(stops) + 1

DigitValue(c) == (CHOOSE i \in DOMAIN Digits : Digits[i] = c) - 1

\* int(s) of a string of decimal digits
RECURSIVE ToInt(_)
ToInt(s) ==
    IF s = <<>> THEN 0
    ELSE 10 * ToInt(SubSeq(s, 1, Len(s) - 1)) + DigitValue(s[Len(s)])

\* sep.join(seqs)
RECURSIVE JoinWith(_, _)
JoinWith(seqs, sep) ==
    IF seqs = <<>> THEN <<>>
    ELSE IF Len(seqs) = 1 THEN seqs[1]
    ELSE seqs[1] \o sep \o JoinWith(Tail(seqs), sep)

\* the absent value (None)
None == [none |-> TRUE]

\* the character U+2022 of the replies
Bullet == "(U+2022)"

-----------------------------------------------------------------------------
(* Timestamps: an ISO-8601 text is its wall-clock reading (seconds since   *)
(* 2025-09-06T00:00:00 on its own clock) and its UTC offset in seconds     *)
(* ("Z" and "+00:00" are offset 0).                                        *)

Iso(day, h, m, s, off) == [wall |-> ((day * 24 + h) * 60 + m) * 60 + s, off |-> off]

\* datetime.fromisoformat(text.replace('Z', '+00:00')): an aware datetime
fromisoformat(iso) == [wall |-> iso.wall, tz |-> iso.off]

\* datetime.replace(tzinfo=timezone.utc): the same wall-clock reading, relabelled
replace_tzinfo_utc(dt) == [dt EXCEPT !.tz = 0]

\* the instant an aware datetime denotes, in seconds on the UTC clock
Instant(dt) == dt.wall - dt.tz

\* (a - b).total_seconds()
total_seconds(a, b) == Instant(a) - Instant(b)

\* the default of os.getenv("CURRENT_TIME", ...): 2025-09-08T11:05:00Z
DefaultCurrentTime == Iso(2, 11, 5, 0, 0)

-----------------------------------------------------------------------------
(* The store *)

Product(id, title, price, tags, sizes, color) ==
    [id |-> id, title |-> title, price |-> price, tags |-> tags,
     sizes |-> sizes, color |-> color]

Order(order_id, email, created_at, items) ==
    [order_id |-> order_id, email |-> email, created_at |-> created_at, items |-> items]

\* the fallback catalog of _load_products
SeedProducts == <<
    Product("P1", <<"M","i","d","i"," ","W","r","a","p"," ","D","r","e","s","s">>, 119, <<<<"w","e","d","d","i","n","g">>, <<"m","i","d","i">>>>, <<"S", "M", "L">>, "Charcoal"),
    Product("P2", <<"S","a","t","i","n"," ","S","l","i","p"," ","D","r","e","s","s">>, 99, <<<<"w","e","d","d","i","n","g">>, <<"m","i","d","i">>>>, <<"XS", "S", "M">>, "Blush"),
    Product("P3", <<"K","n","i","t"," ","B","o","d","y","c","o","n">>, 89, <<<<"m","i","d","i">>>>, <<"M", "L">>, "Navy"),
    Product("P4", <<"A","-","L","i","n","e"," ","D","a","y"," ","D","r","e","s","s">>, 75, <<<<"d","a","y","w","e","a","r">>, <<"m","i","d","i">>>>, <<"S", "M", "L">>, "Olive"),
    Product("P5", <<"S","e","q","u","i","n"," ","P","a","r","t","y"," ","D","r","e","s","s">>, 149, <<<<"p","a","r","t","y">>>>, <<"S", "M">>, "Black") >>

\* the fallback orders of _load_orders
SeedOrders == <<
    Order(<<"A","1","0","0","1">>, <<"r","e","h","a","n","@","e","x","a","m","p","l","e",".","c","o","m">>, Iso(1, 9, 30, 0, 0), <<[id |-> "P1", size |-> "M"]>>),
    Order(<<"A","1","0","0","2">>, <<"a","l","e","x","@","e","x","a","m","p","l","e",".","c","o","m">>, Iso(0, 13, 5, 0, 0), <<[id |-> "P2", size |-> "S"]>>),
    Order(<<"A","1","0","0","3">>, <<"m","i","r","a","@","e","x","a","m","p","l","e",".","c","o","m">>, Iso(1, 11, 55, 0, 0), <<[id |-> "P3", size |-> "L"]>>) >>

\* a data/products.json: equal prices, a title that matches a query its tags do not
FileProducts == <<
    Product("Q1", <<"P","a","r","t","y"," ","M","i","d","i">>, 99, <<<<"p","a","r","t","y">>>>, <<"M">>, "Red"),
    Product("Q2", <<"S","a","t","i","n"," ","S","l","i","p"," ","D","r","e","s","s">>, 99, <<<<"w","e","d","d","i","n","g">>, <<"m","i","d","i">>>>, <<"XS", "S">>, "Blush"),
    Product("Q3", <<"L","i","n","e","n"," ","S","h","i","r","t">>, 40, <<<<"d","a","y","w","e","a","r">>>>, <<"S", "L">>, "White"),
    Product("Q4", <<"W","e","d","d","i","n","g"," ","G","o","w","n">>, 99, <<<<"W","e","d","d","i","n","g">>>>, <<"M", "L">>, "Ivory") >>

\* a data/orders.json: an order younger than an hour at the default time
FileOrders == <<
    Order(<<"A","1","0","0","3">>, <<"m","i","r","a","@","e","x","a","m","p","l","e",".","c","o","m">>, Iso(2, 10, 30, 0, 0), <<[id |-> "Q2", size |-> "S"]>>),
    Order(<<"B","7">>, <<"a","l","e","x","@","e","x","a","m","p","l","e",".","c","o","m">>, Iso(2, 10, 4, 59, 0), <<[id |-> "Q3", size |-> "L"]>>) >>

\* what _load_products and _load_orders can return
Stores == {
    [products |-> SeedProducts, orders |-> SeedOrders],
    [products |-> FileProducts, orders |-> FileOrders] }

-----------------------------------------------------------------------------
(* The tools (src/src/tools.py) *)

\* any(tag in product['tags'] for tag in tags)
AnyTagMatches(product, tags) ==
    \E i \in DOMAIN tags : \E j \in DOMAIN product.tags : tags[i] = product.tags[j]

\* query_lower in title.lower() or any(query_lower in tag.lower() for tag in tags)
QueryMatches(product, query) ==
    LET query_lower == Lower(query)
    IN  \/ Contains(Lower(product.title), query_lower)
        \/ \E j \in DOMAIN product.tags : Contains(Lower(product.tags[j]), query_lower)

\* the body of the loop of product_search: the product is appended to results
PassesFilters(product, query, price_max, tags) ==
    /\ ~(product.price > price_max)
    /\ ~(tags # <<>> /\ ~AnyTagMatches(product, tags))
    /\ ~(query # <<>> /\ ~QueryMatches(product, query))

\* the loop of product_search: the passing products in catalog order
RECURSIVE FilterProducts(_, _, _, _)
FilterProducts(catalog, query, price_max, tags) ==
    IF catalog = <<>> THEN <<>>
    ELSE (IF PassesFilters(Head(catalog), query, price_max, tags)
          THEN <<Head(catalog)>> ELSE <<>>)
         \o FilterProducts(Tail(catalog), query, price_max, tags)

\* p put into a list sorted by price, after every element whose price is not larger
RECURSIVE InsertByPrice(_, _)
InsertByPrice(sorted, p) ==
    IF sorted = <<>> THEN <<p>>
    ELSE IF p.price < Head(sorted).price THEN <<p>> \o sorted
    ELSE <<Head(sorted)>> \o InsertByPrice(Tail(sorted), p)

\* sorted(results, key=lambda x: x['price']): stable
RECURSIVE SortedByPrice(_)
SortedByPrice(results) ==
    IF results = <<>> THEN <<>>
    ELSE InsertByPrice(SortedByPrice(SubSeq(results, 1, Len(results) - 1)),
                       results[Len(results)])

\* results[:n]
Take(results, n) == SubSeq(results, 1, Min(n, Len(results)))

\* a search that cuts to two results without sorting
product_search_unsorted(catalog, query, price_max, tags) ==
    Take(FilterProducts(catalog, query, price_max, tags), 2)


product_search(catalog, query, price_max, tags) ==
    Take(SortedByPrice(FilterProducts(catalog, query, price_max, tags)), 2)

ContainsAny(s, words) == \E w \in words : Contains(s, w)

size_recommender(user_inputs) ==
    LET user_lower == Lower(user_inputs)
    IN  IF ContainsAny(user_lower, {<<"f","i","t","t","e","d">>, <<"t","i","g","h","t">>, <<"s","m","a","l","l">>, <<"p","e","t","i","t","e">>})
        THEN "I'd recommend size M for a more fitted look"
        ELSE IF ContainsAny(user_lower, {<<"l","o","o","s","e">>, <<"c","o","m","f","o","r","t","a","b","l","e">>, <<"r","o","o","m","y">>, <<"l","a","r","g","e">>})
        THEN "I'd recommend size L for a more comfortable fit"
        ELSE IF ContainsAny(user_lower, {<<"b","e","t","w","e","e","n"," ","m","/","l">>, <<"b","e","t","w","e","e","n"," ","m"," ","a","n","d"," ","l">>})
        THEN "For M vs L: choose M if you prefer fitted style, L if you want more room and comfort"
        ELSE "I'd recommend size M as a good middle ground, but L if you prefer looser fits"

\* ''.join(filter(str.isdigit, zip_code))
OnlyDigits(s) == SelectSeq(s, LAMBDA c : c \in DigitSet)

\* zip_digits[:6].ljust(6, '0')
PadSix(zip_digits) ==
    LET cut == Take(zip_digits, 6)
    IN  cut \o [i \in 1..(6 - Len(cut)) |-> "0"]

eta(zip_code) ==
    LET zip_digits == OnlyDigits(zip_code)
        zip_int == ToInt(PadSix(zip_digits))
    IN  IF zip_digits = <<>> THEN "3-4 business days"
        ELSE IF zip_int < 400000 THEN "3-4 business days"
        ELSE IF zip_int < 600000 THEN "2-3 business days"
        ELSE "4-5 business days"

\* a lookup that forgets to compare the email
order_lookup_by_id(store_orders, order_id, email) ==
    LET hits == {i \in DOMAIN store_orders : store_orders[i].order_id = order_id}
    IN  IF hits = {} THEN None ELSE store_orders[SetMin(hits)]

\* the first order of the list with this id and this email, or None
order_lookup(store_orders, order_id, email) ==
    LET hits == {i \in DOMAIN store_orders :
                    /\ store_orders[i].order_id = order_id
                    /\ store_orders[i].email = email}
    IN  IF hits = {} THEN None ELSE store_orders[SetMin(hits)]

\* round(num / den, 1), in tenths, for a quotient that is not halfway between two
\* tenths: the nearest tenth.  (Halfway, the float decides; no input of the model
\* gives such a quotient, and the branch for it is never taken.)
RoundTenths(num, den) ==
    LET q == (10 * num) \div den
        r == (10 * num) % den
    IN  IF 2 * r < den THEN q
        ELSE IF 2 * r > den THEN q + 1
        ELSE IF q % 2 = 0 THEN q ELSE q + 1

\* f"{x}" of a float with one decimal, given in tenths
FormatTenths(t) ==
    LET a == IF t < 0 THEN -t ELSE t
    IN  (IF t < 0 THEN <<"-">> ELSE <<>>) \o <<ToString(a \div 10), ".", ToString(a % 10)>>

\* time_diff_minutes <= 60, with time_diff_minutes = seconds / 60
WithinWindow(seconds) == seconds <= 60 * 60

order_cancel(store_orders, order_id, email, now) ==
    LET order == order_lookup(store_orders, order_id, email)
        created_at == replace_tzinfo_utc(fromisoformat(order.created_at))
        current_dt == replace_tzinfo_utc(fromisoformat(now))
        seconds == total_seconds(current_dt, created_at)
    IN  IF order = None
        THEN [success |-> FALSE,
              reason |-> "order_not_found",
              message |-> <<"Order not found with provided ID and email">>]
        ELSE IF WithinWindow(seconds)
        THEN [success |-> TRUE,
              reason |-> "within_policy",
              message |-> <<"Order ">> \o order_id
                          \o <<" cancelled successfully. Refund will process in 3-5 business days.">>,
              \* in tenths of a minute
              time_diff_minutes |-> RoundTenths(seconds, 60)]
        ELSE [success |-> FALSE,
              reason |-> "policy_violation",
              message |-> <<"Order was placed ">> \o FormatTenths(RoundTenths(seconds, 60 * 60))
                          \o <<" hours ago, beyond our 60-minute cancellation window.">>,
              time_diff_minutes |-> RoundTenths(seconds, 60),
              alternatives |-> <<"Update shipping address",
                                 "Convert to store credit",
                                 "Connect with customer support">>]

-----------------------------------------------------------------------------
(* The regular expressions of src/src/graph.py.  Each gives the matched    *)
(* text of re.search (its group where the pattern has one), or NoMatch.    *)

\* re.search found nothing (a match of these patterns is never empty)
NoMatch == <<>>

\* re.search(r'order\s+([A-Z]\d+)', text, re.IGNORECASE): group(1)
OrderMatch(text) ==
    LET lower == Lower(text)
        \* the letter of a match that starts at i sits after all the spaces
        letter(i) == RunEnd(text, i + 5, SpaceSet) + 1
        starts == {i \in DOMAIN text :
                     /\ MatchAt(lower, <<"o","r","d","e","r">>, i)
                     /\ letter(i) > i + 5
                     /\ letter(i) + 1 <= Len(text)
                     /\ text[letter(i)] \in LetterSet
                     /\ text[letter(i) + 1] \in DigitSet}
    IN  IF starts = {} THEN NoMatch
        ELSE LET l == letter(SetMin(starts))
             IN  SubSeq(text, l, RunEnd(text, l + 1, DigitSet))

\* re.search(r'[\w\.-]+@[\w\.-]+\.\w+', text): group(0)
EmailMatch(text) ==
    LET \* the dots after the "@" at k that can be the pattern's \. : inside the
        \* run of [\w\.-] that follows the "@", not its first character, and
        \* followed by a \w
        dots(k) == {j \in (k + 2)..RunEnd(text, k + 1, EmailSet) :
                      /\ text[j] = "."
                      /\ j + 1 <= Len(text)
                      /\ text[j + 1] \in WordSet}
        ats == {k \in DOMAIN text :
                  /\ text[k] = "@"
                  /\ k > 1
                  /\ text[k - 1] \in EmailSet
                  /\ dots(k) # {}}
    IN  IF ats = {} THEN NoMatch
        ELSE LET k == SetMin(ats)
                 \* the greedy [\w\.-]+ gives back as little as it can
                 dot == SetMax(dots(k))
             IN  SubSeq(text, RunStart(text, k - 1, EmailSet), RunEnd(text, dot + 1, WordSet))

\* re.search(r'under.*?(\d+)', message_lower): group(1)
PriceMatch(message_lower) ==
    LET \* the first digit after the "under" at i, with no line break before it
        firstDigit(i) ==
            LET ds == {d \in (i + 5)..Len(message_lower) :
                         /\ message_lower[d] \in DigitSet
                         /\ \A k \in (i + 5)..(d - 1) : message_lower[k] # "\n"}
            IN  IF ds = {} THEN 0 ELSE SetMin(ds)
        starts == {i \in DOMAIN message_lower :
                     MatchAt(message_lower, <<"u","n","d","e","r">>, i) /\ firstDigit(i) # 0}
    IN  IF starts = {} THEN NoMatch
        ELSE LET d == firstDigit(SetMin(starts))
             IN  SubSeq(message_lower, d, RunEnd(message_lower, d, DigitSet))

\* re.search(r'\b\d{6}\b', text): group(0)
ZipMatch(text) ==
    LET starts == {i \in DOMAIN text :
                     /\ i + 5 <= Len(text)
                     /\ \A k \in i..(i + 5) : text[k] \in DigitSet
                     /\ (i = 1 \/ text[i - 1] \notin WordSet)
                     /\ (i + 6 > Len(text) \/ text[i + 6] \notin WordSet)}
    IN  IF starts = {} THEN NoMatch
        ELSE SubSeq(text, SetMin(starts), SetMin(starts) + 5)

-----------------------------------------------------------------------------
(* The nodes of the graph (src/src/graph.py).  A node gives the dictionary *)
(* it returns ("returns") and the store methods it invokes, in order       *)
(* ("calls"); the graph merges the dictionary into the state.              *)

\* state["messages"][-1].content
UserMessage(st) == st.messages[Len(st.messages)]

product_keywords == {<<"d","r","e","s","s">>, <<"p","r","o","d","u","c","t">>, <<"w","e","d","d","i","n","g">>, <<"m","i","d","i">>, <<"s","i","z","e">>, <<"p","r","i","c","e">>, <<"e","t","a">>, <<"u","n","d","e","r">>}
order_keywords == {<<"c","a","n","c","e","l">>, <<"o","r","d","e","r">>, <<"r","e","f","u","n","d">>}

\* a router that tests the product keywords before anything else
router_node_without_exclusion(st) ==
    LET user_message == Lower(UserMessage(st))
        intent == IF ContainsAny(user_message, product_keywords)
                  THEN "product_assist"
                  ELSE IF ContainsAny(user_message, order_keywords)
                  THEN "order_help"
                  ELSE "other"
    IN  [returns |-> IF st.messages = <<>> THEN [intent |-> "other"] ELSE [intent |-> intent],
         calls |-> <<>>]


router_node(st) ==
    LET user_message == Lower(UserMessage(st))
        intent == IF ContainsAny(user_message, product_keywords)
                     /\ ~Contains(user_message, <<"c","a","n","c","e","l">>)
                  THEN "product_assist"
                  ELSE IF ContainsAny(user_message, order_keywords)
                  THEN "order_help"
                  ELSE "other"
    IN  [returns |-> IF st.messages = <<>> THEN [intent |-> "other"] ELSE [intent |-> intent],
         calls |-> <<>>]

tool_selector_node(st) ==
    LET tools == IF st.intent = "product_assist"
                 THEN <<"product_search", "size_recommender", "eta">>
                 ELSE IF st.intent = "order_help"
                 THEN <<"order_lookup", "order_cancel">>
                 ELSE <<>>
    IN  [returns |-> [tools_called |-> tools], calls |-> <<>>]

\* price_max of execute_tools_node
PriceMax(user_message) ==
    LET price_match == PriceMatch(Lower(user_message))
    IN  IF price_match # NoMatch THEN ToInt(price_match) ELSE 1000

\* an execute_tools that takes the order of the id, whatever the email
execute_tools_node_lookup_by_id(st) ==
    LET user_message == IF st.messages # <<>> THEN UserMessage(st) ELSE <<>>
        message_lower == Lower(user_message)
        searching == "product_search" \in Range(st.tools_called)
        looking == "order_lookup" \in Range(st.tools_called)
        tagged == ContainsAny(message_lower, {<<"w","e","d","d","i","n","g">>, <<"m","i","d","i">>})
        query == IF tagged THEN <<"m","i","d","i">> ELSE <<>>
        tags == IF tagged THEN <<<<"w","e","d","d","i","n","g">>, <<"m","i","d","i">>>> ELSE <<>>
        found == product_search(products, query, PriceMax(user_message), tags)
        order_match == OrderMatch(user_message)
        email_match == EmailMatch(user_message)
        both == order_match # NoMatch /\ email_match # NoMatch
        order == order_lookup_by_id(orders, order_match, email_match)
    IN  [returns |->
            [evidence |->
                (IF searching
                 THEN [i \in DOMAIN found |-> [type |-> "product", data |-> found[i]]]
                 ELSE <<>>)
                \o (IF looking /\ both /\ order # None
                    THEN <<[type |-> "order", data |-> order]>>
                    ELSE <<>>)],
         calls |-> (IF searching THEN <<"product_search">> ELSE <<>>)
                   \o (IF looking /\ both THEN <<"order_lookup">> ELSE <<>>)]

execute_tools_node(st) ==
    LET user_message == IF st.messages # <<>> THEN UserMessage(st) ELSE <<>>
        message_lower == Lower(user_message)
        searching == "product_search" \in Range(st.tools_called)
        looking == "order_lookup" \in Range(st.tools_called)
        tagged == ContainsAny(message_lower, {<<"w","e","d","d","i","n","g">>, <<"m","i","d","i">>})
        query == IF tagged THEN <<"m","i","d","i">> ELSE <<>>
        tags == IF tagged THEN <<<<"w","e","d","d","i","n","g">>, <<"m","i","d","i">>>> ELSE <<>>
        found == product_search(products, query, PriceMax(user_message), tags)
        order_match == OrderMatch(user_message)
        email_match == EmailMatch(user_message)
        both == order_match # NoMatch /\ email_match # NoMatch
        order == order_lookup(orders, order_match, email_match)
    IN  [returns |->
            [evidence |->
                (IF searching
                 THEN [i \in DOMAIN found |-> [type |-> "product", data |-> found[i]]]
                 ELSE <<>>)
                \o (IF looking /\ both /\ order # None
                    THEN <<[type |-> "order", data |-> order]>>
                    ELSE <<>>)],
         calls |-> (IF searching THEN <<"product_search">> ELSE <<>>)
                   \o (IF looking /\ both THEN <<"order_lookup">> ELSE <<>>)]

\* d.get(key, default)
Get(d, key, default) == IF key \in DOMAIN d THEN d[key] ELSE default

\* a guard that refuses on "discount code" alone
policy_guard_node_eager_refusal(st) ==
    LET user_message == UserMessage(st)
        order_match == OrderMatch(user_message)
        email_match == EmailMatch(user_message)
        both == order_match # NoMatch /\ email_match # NoMatch
        cancel_result == order_cancel(orders, order_match, email_match, current_time)
        lowered == Lower(user_message)
        policy_decision ==
            IF st.intent = "order_help"
            THEN IF both
                 THEN IF cancel_result.success
                      THEN [cancel_allowed |-> TRUE,
                            reason |-> "within_policy",
                            message |-> cancel_result.message]
                      ELSE [cancel_allowed |-> FALSE,
                            reason |-> cancel_result.reason,
                            message |-> cancel_result.message,
                            alternatives |-> Get(cancel_result, "alternatives", <<>>)]
                 ELSE None
            ELSE IF st.intent = "other"
            THEN IF Contains(lowered, <<"d","i","s","c","o","u","n","t"," ","c","o","d","e">>)
                 THEN [refuse |-> TRUE, reason |-> "invalid_discount_request"]
                 ELSE None
            ELSE None
    IN  [returns |-> [policy_decision |-> policy_decision],
         calls |-> IF st.intent = "order_help" /\ both
                   THEN <<"order_cancel", "order_lookup">> ELSE <<>>]

policy_guard_node(st) ==
    LET user_message == UserMessage(st)
        order_match == OrderMatch(user_message)
        email_match == EmailMatch(user_message)
        both == order_match # NoMatch /\ email_match # NoMatch
        \* current_time is None: order_cancel reads CURRENT_TIME
        cancel_result == order_cancel(orders, order_match, email_match, current_time)
        lowered == Lower(user_message)
        policy_decision ==
            IF st.intent = "order_help"
            THEN IF both
                 THEN IF cancel_result.success
                      THEN [cancel_allowed |-> TRUE,
                            reason |-> "within_policy",
                            message |-> cancel_result.message]
                      ELSE [cancel_allowed |-> FALSE,
                            reason |-> cancel_result.reason,
                            message |-> cancel_result.message,
                            alternatives |-> Get(cancel_result, "alternatives", <<>>)]
                 ELSE None
            ELSE IF st.intent = "other"
            THEN IF Contains(lowered, <<"d","i","s","c","o","u","n","t"," ","c","o","d","e">>)
                    /\ ContainsAny(lowered, {<<"d","o","e","s","n","'","t"," ","e","x","i","s","t">>, <<"n","o","n","-","e","x","i","s","t","e","n","t">>, <<"f","a","k","e">>})
                 THEN [refuse |-> TRUE, reason |-> "invalid_discount_request"]
                 ELSE None
            ELSE None
    IN  [returns |-> [policy_decision |-> policy_decision],
         \* order_cancel looks the order up itself
         calls |-> IF st.intent = "order_help" /\ both
                   THEN <<"order_cancel", "order_lookup">> ELSE <<>>]

\* the keys of an evidence item's data that the trace shows
TraceKeys == {"title", "price", "sizes", "order_id", "email", "color"}

\* the entry of trace["evidence"] for an evidence item
TraceEvidence(e) ==
    LET data == e.data
    IN  [k \in {"id"} \cup (DOMAIN data \cap TraceKeys) |->
            IF k = "id" THEN Get(data, "id", Get(data, "order_id", "unknown")) ELSE data[k]]

\* one line of the product list
ProductLine(p) ==
    <<Bullet, " ">> \o p.title \o <<" ($", ToString(p.price), ", ", p.color, ") - Available in ">>
    \o JoinWith([i \in DOMAIN p.sizes |-> <<p.sizes[i]>>], <<", ">>) \o <<"\n">>

RECURSIVE ProductLines(_)
ProductLines(ps) ==
    IF ps = <<>> THEN <<>> ELSE ProductLine(Head(ps)) \o ProductLines(Tail(ps))

\* the numbered alternatives, from i on
RECURSIVE AlternativeLines(_, _)
AlternativeLines(alts, i) ==
    IF i > Len(alts) THEN <<>>
    ELSE <<ToString(i), ". ", alts[i], "\n">> \o AlternativeLines(alts, i + 1)

\* final_message of responder_node, and the store methods it takes to build it
FinalMessage(st) ==
    LET intent == st.intent
        evidence == st.evidence
        policy_decision == st.policy_decision
        user_message == IF st.messages # <<>> THEN UserMessage(st) ELSE <<>>
        lowered == Lower(user_message)
        products_found == LET es == SelectSeq(evidence, LAMBDA e : e.type = "product")
                          IN  [i \in DOMAIN es |-> es[i].data]
        sized == Contains(lowered, <<"b","e","t","w","e","e","n"," ","m","/","l">>) \/ Contains(lowered, <<"m","/","l">>)
        zip_match == ZipMatch(user_message)
    IN  IF intent = "product_assist"
        THEN IF products_found # <<>>
             THEN [text |->
                      <<"I found ", ToString(Len(products_found)), " dress",
                        IF Len(products_found) > 1 THEN "es" ELSE "", " for you:\n\n">>
                      \o ProductLines(products_found)
                      \o (IF sized THEN <<"\n", size_recommender(user_message), ".\n">> ELSE <<>>)
                      \o (IF zip_match # NoMatch
                          THEN <<"\nDelivery to ">> \o zip_match \o <<": ", eta(zip_match), ".">>
                          ELSE <<>>),
                   calls |-> (IF sized THEN <<"size_recommender">> ELSE <<>>)
                             \o (IF zip_match # NoMatch THEN <<"eta">> ELSE <<>>)]
             ELSE [text |-> <<"I couldn't find any products matching your criteria. Please try adjusting your price range or preferences.">>,
                   calls |-> <<>>]
        ELSE IF intent = "order_help"
        THEN [text |->
                 IF policy_decision # None
                 THEN IF Get(policy_decision, "cancel_allowed", FALSE)
                      THEN policy_decision.message
                      ELSE policy_decision.message
                           \o <<"\n\nI can help you with these alternatives:\n">>
                           \o AlternativeLines(Get(policy_decision, "alternatives", <<>>), 1)
                           \o <<"\nWhich option would you prefer?">>
                 ELSE <<"I need both your order ID and email address to help you with order-related requests.">>,
              calls |-> <<>>]
        ELSE IF intent = "other"
        THEN [text |->
                 IF policy_decision # None /\ Get(policy_decision, "refuse", FALSE)
                 THEN <<"I can't provide non-existent discount codes, but I can suggest these legitimate offers:\n",
                        Bullet, " Sign up for our newsletter for 10% off your first order\n",
                        Bullet, " Follow us on social media for exclusive deals\n",
                        Bullet, " Check our current promotions page for active discounts">>
                 ELSE <<"I'm here to help with product searches and order management. How can I assist you today?">>,
              calls |-> <<>>]
        ELSE [text |-> <<>>, calls |-> <<>>]

\* a responder that leaves the trace's final_message as it was initialised
responder_node_stale_trace(st) ==
    LET final == FinalMessage(st)
        trace == [intent |-> st.intent,
                  tools_called |-> st.tools_called,
                  evidence |-> [i \in DOMAIN st.evidence |-> TraceEvidence(st.evidence[i])],
                  policy_decision |-> st.policy_decision,
                  final_message |-> <<>>]
    IN  [returns |-> [final_message |-> final.text, trace |-> trace],
         calls |-> final.calls]

\* a responder that also returns the evidence, cut down to what the trace shows
responder_node_rewriting_evidence(st) ==
    LET final == FinalMessage(st)
        shown == [i \in DOMAIN st.evidence |-> TraceEvidence(st.evidence[i])]
        trace == [intent |-> st.intent,
                  tools_called |-> st.tools_called,
                  evidence |-> shown,
                  policy_decision |-> st.policy_decision,
                  final_message |-> final.text]
    IN  [returns |-> [final_message |-> final.text, trace |-> trace, evidence |-> shown],
         calls |-> final.calls]

responder_node(st) ==
    LET final == FinalMessage(st)
        trace == [intent |-> st.intent,
                  tools_called |-> st.tools_called,
                  evidence |-> [i \in DOMAIN st.evidence |-> TraceEvidence(st.evidence[i])],
                  policy_decision |-> st.policy_decision,
                  final_message |-> <<>>]
    IN  [returns |-> [final_message |-> final.text,
                      \* trace["final_message"] = final_message
                      trace |-> [trace EXCEPT !.final_message = final.text]],
         calls |-> final.calls]

-----------------------------------------------------------------------------
(* The graph of create_commerce_graph and the run of run_agent *)

\* a graph whose execute_tools is wired to the responder
EdgesPastThePolicyGuard ==
    [START |-> "router",
     router |-> "tool_selector",
     tool_selector |-> "execute_tools",
     execute_tools |-> "responder",
     policy_guard |-> "responder",
     responder |-> "END"]

\* graph.add_edge(a, b): the node that follows a
Edges == [START |-> "router",
          router |-> "tool_selector",
          tool_selector |-> "execute_tools",
          execute_tools |-> "policy_guard",
          policy_guard |-> "responder",
          responder |-> "END"]

\* the state run_agent hands to graph.invoke
InitialState(user_input) ==
    [messages |-> <<user_input>>,
     intent |-> "",
     tools_called |-> <<>>,
     evidence |-> <<>>,
     policy_decision |-> None,
     final_message |-> <<>>,
     trace |-> [empty |-> TRUE]]

\* the graph's update of the state with the dictionary a node returns
Merge(st, returns) ==
    [k \in DOMAIN st |-> IF k \in DOMAIN returns THEN returns[k] ELSE st[k]]

\* what run_agent returns
Outcome(st) == [trace |-> st.trace, final_message |-> st.final_message]

NoCall == [tool |-> "none"]

-----------------------------------------------------------------------------
(* The inputs *)

\* the pieces input texts are made of
Vocabulary == <<
    <<"C","a","n","c","e","l">>,
    <<"o","r","d","e","r"," ","A","1","0","0","3">>,
    <<"o","r","d","e","r"," ","B","7">>,
    <<"m","i","r","a","@","e","x","a","m","p","l","e",".","c","o","m">>,
    <<"a","l","e","x","@","e","x","a","m","p","l","e",".","c","o","m",".">>,
    <<"W","e","d","d","i","n","g"," ","m","i","d","i">>,
    <<"u","n","d","e","r"," ","$","1","2","0">>,
    <<"u","n","d","e","r">>,
    <<"5","6","0","0","0","1">>,
    <<"d","i","s","c","o","u","n","t"," ","c","o","d","e">>,
    <<"f","a","k","e">>,
    <<"p","r","i","c","e">>,
    <<"m","/","l">> >>

\* the input texts: up to MaxChunks pieces, a space between two
Texts ==
    {JoinWith([i \in DOMAIN cs |-> Vocabulary[cs[i]]], <<" ">>) :
        cs \in UNION {[1..n -> DOMAIN Vocabulary] : n \in 0..MaxChunks}}

\* the values of CURRENT_TIME: the default, and 2025-09-07T12:55:00Z
CurrentTimes == {DefaultCurrentTime, Iso(1, 12, 55, 0, 0)}

\* the ISO text, written with UTC offset off, of the instant d seconds after created_at
After(created_at, d, off) ==
    [wall |-> Instant(fromisoformat(created_at)) + d + off, off |-> off]

\* the reference times of a direct order_cancel call for an order id: the default,
\* and the times around the hour after the creation of the order that has the id,
\* written as UTC, as +01:00 and as -01:00
ReferenceTimes(order_id) ==
    {DefaultCurrentTime} \cup
    {After(orders[i].created_at, d, off) :
        i \in {k \in DOMAIN orders : orders[k].order_id = order_id},
        d \in {0, 59 * 60, 60 * 60, 60 * 60 + 1, 61 * 60, 90 * 60},
        off \in {0, 60 * 60, -(60 * 60)}}

OrderIds == {<<"A","1","0","0","3">>, <<"A","1","0","0","2">>, <<"B","7">>, <<"Z","9">>}
Emails == {<<"m","i","r","a","@","e","x","a","m","p","l","e",".","c","o","m">>, <<"a","l","e","x","@","e","x","a","m","p","l","e",".","c","o","m">>, <<"M","i","r","a","@","e","x","a","m","p","l","e",".","c","o","m">>}
Queries == {<<>>, <<"m","i","d","i">>, <<"D","R","E","S","S">>, <<"p","a","r","t","y">>}
PriceCeilings == {0, 89, 99, 120, 1000}
TagLists == {<<>>, <<<<"w","e","d","d","i","n","g">>, <<"m","i","d","i">>>>, <<<<"p","a","r","t","y">>>>, <<<<"M","i","d","i">>>>}

-----------------------------------------------------------------------------
(* The actions *)

Init ==
    /\ \E store \in Stores : products = store.products /\ orders = store.orders
    /\ current_time \in CurrentTimes
    /\ state = None
    /\ pc = "idle"
    /\ executed = <<>>
    /\ invoked = <<>>
    /\ call = NoCall
    /\ last = None

\* run_agent(user_input): a fresh state enters the graph at START
Submit(user_input) ==
    /\ pc = "idle"
    /\ call = NoCall
    /\ state' = InitialState(user_input)
    /\ pc' = Edges["START"]
    /\ executed' = <<>>
    /\ invoked' = <<>>
    /\ last' = None
    /\ UNCHANGED <<products, orders, current_time, call>>

\* run_agent again with the text of the run that has just ended
Resubmit ==
    /\ pc = "END"
    /\ state' = InitialState(UserMessage(state))
    /\ pc' = Edges["START"]
    /\ executed' = <<>>
    /\ invoked' = <<>>
    /\ last' = Outcome(state)
    /\ UNCHANGED <<products, orders, current_time, call>>

\* run_agent returns; the state of the run is dropped
Return ==
    /\ pc = "END"
    /\ state' = None
    /\ pc' = "idle"
    /\ executed' = <<>>
    /\ invoked' = <<>>
    /\ last' = None
    /\ UNCHANGED <<products, orders, current_time, call>>

\* the graph runs node name, which gave out, and moves along the node's edge
RunNode(name, out) ==
    /\ pc = name
    /\ state' = Merge(state, out.returns)
    /\ invoked' = invoked \o out.calls
    /\ executed' = Append(executed, name)
    /\ pc' = Edges[name]
    /\ UNCHANGED <<products, orders, current_time, call, last>>

Router == RunNode("router", router_node(state))

ToolSelector == RunNode("tool_selector", tool_selector_node(state))

ExecuteTools == RunNode("execute_tools", execute_tools_node(state))

\* a policy guard whose allowed cancellation takes the order out of the store
PolicyGuardCancelling ==
    LET out == policy_guard_node(state)
        decision == out.returns.policy_decision
        allowed == decision # None /\ Get(decision, "cancel_allowed", FALSE)
    IN  /\ pc = "policy_guard"
        /\ state' = Merge(state, out.returns)
        /\ invoked' = invoked \o out.calls
        /\ executed' = Append(executed, "policy_guard")
        /\ pc' = Edges["policy_guard"]
        /\ orders' = IF allowed
                     THEN SelectSeq(orders, LAMBDA o : o.order_id # OrderMatch(UserMessage(state)))
                     ELSE orders
        /\ UNCHANGED <<products, current_time, call, last>>

PolicyGuard == RunNode("policy_guard", policy_guard_node(state))

Responder == RunNode("responder", responder_node(state))

\* a direct call of a store method, as the test suite makes them
DirectCall(tool, args, returned) ==
    /\ pc = "idle"
    /\ call = NoCall
    /\ call' = [tool |-> tool, args |-> args, returned |-> returned]
    /\ UNCHANGED <<products, orders, current_time, state, pc, executed, invoked, last>>

CallProductSearch(query, price_max, tags) ==
    DirectCall("product_search",
               [query |-> query, price_max |-> price_max, tags |-> tags],
               product_search(products, query, price_max, tags))

CallOrderLookup(order_id, email) ==
    DirectCall("order_lookup",
               [order_id |-> order_id, email |-> email],
               order_lookup(orders, order_id, email))

CallOrderCancel(order_id, email, now) ==
    DirectCall("order_cancel",
               [order_id |-> order_id, email |-> email, current_time |-> now],
               order_cancel(orders, order_id, email, now))

\* the caller is done with what a direct call returned
Discard ==
    /\ call # NoCall
    /\ call' = NoCall
    /\ UNCHANGED <<products, orders, current_time, state, pc, executed, invoked, last>>

Next ==
    \/ \E user_input \in Texts : Submit(user_input)
    \/ Resubmit
    \/ Return
    \/ Router
    \/ ToolSelector
    \/ ExecuteTools
    \/ PolicyGuard
    \/ Responder
    \/ \E query \in Queries, price_max \in PriceCeilings, tags \in TagLists :
          CallProductSearch(query, price_max, tags)
    \/ \E order_id \in OrderIds, email \in Emails : CallOrderLookup(order_id, email)
    \/ \E order_id \in OrderIds, email \in Emails :
          \E now \in ReferenceTimes(order_id) : CallOrderCancel(order_id, email, now)
    \/ Discard

Spec == Init /\ [][Next]_vars

-----------------------------------------------------------------------------
(* The trace schema (src/src/schema_validator.py) *)

\* {"type": "string"} of a message: a sequence of string pieces
IsString(x) == \A i \in DOMAIN x : x[i] \in STRING

\* the schema of "policy_decision": null, or an object with the required key
\* "cancel_allowed" and the listed properties of the listed types
PolicyDecisionSchema(d) ==
    \/ d = None
    \/ /\ d # None
       /\ "cancel_allowed" \in DOMAIN d
       /\ d.cancel_allowed \in BOOLEAN
       /\ "reason" \in DOMAIN d => d.reason \in STRING
       /\ "alternatives" \in DOMAIN d => IsString(d.alternatives)

\* validate(instance=trace, schema=TRACE_SCHEMA) does not raise
validate_trace(trace) ==
    /\ {"intent", "tools_called", "evidence", "policy_decision", "final_message"}
           \subseteq DOMAIN trace
    /\ trace.intent \in {"product_assist", "order_help", "other"}
    /\ \A i \in DOMAIN trace.tools_called : trace.tools_called[i] \in STRING
    /\ \A i \in DOMAIN trace.evidence : DOMAIN trace.evidence[i] \subseteq STRING
    /\ PolicyDecisionSchema(trace.policy_decision)
    /\ IsString(trace.final_message)

-----------------------------------------------------------------------------
(* Properties *)

Nodes == {"router", "tool_selector", "execute_tools", "policy_guard", "responder"}

\* a run has ended and its outcome is there to be returned
Ended == pc = "END"

\* the input text of the run in progress
Input == UserMessage(state)

\* the order of the store with this id and this email exists
Owned(order_id, email) ==
    \E i \in DOMAIN orders : orders[i].order_id = order_id /\ orders[i].email = email

\* some order of the store has this id
Known(order_id) == \E i \in DOMAIN orders : orders[i].order_id = order_id

\* the seconds that passed between two ISO texts, each read with its own offset
Elapsed(created_at, now) == (now.wall - now.off) - (created_at.wall - created_at.off)

(* C1: for every order of the store and every reference time, order_cancel  *)
(* with the owner's email succeeds with reason within_policy when at most   *)
(* 60 minutes passed since the order's creation, exactly 60 included, and   *)
(* is refused with reason policy_violation when more than 60 minutes        *)
(* passed.                                                                  *)
C1_CancelWithinTheHour ==
    (call.tool = "order_cancel" /\ Owned(call.args.order_id, call.args.email)) =>
        LET order == CHOOSE o \in Range(orders) :
                        o.order_id = call.args.order_id /\ o.email = call.args.email
            seconds == Elapsed(order.created_at, call.args.current_time)
        IN  IF seconds <= 60 * 60
            THEN call.returned.success /\ call.returned.reason = "within_policy"
            ELSE ~call.returned.success /\ call.returned.reason = "policy_violation"

(* The boundary of C1 does hold for reference times and creation times      *)
(* that are written as UTC.                                                 *)
CancelWithinTheHourUtc ==
    (/\ call.tool = "order_cancel"
     /\ Owned(call.args.order_id, call.args.email)
     /\ call.args.current_time.off = 0) =>
        LET order == CHOOSE o \in Range(orders) :
                        o.order_id = call.args.order_id /\ o.email = call.args.email
            seconds == Elapsed(order.created_at, call.args.current_time)
        IN  order.created_at.off = 0 =>
                IF seconds <= 60 * 60
                THEN call.returned.success /\ call.returned.reason = "within_policy"
                ELSE ~call.returned.success /\ call.returned.reason = "policy_violation"

(* C2: the trace run_agent returns has final_message equal to the reply it  *)
(* returns, in every branch of the responder.                               *)
C2_FinalMessageIsReply ==
    Ended => Outcome(state).trace.final_message = Outcome(state).final_message

C2_Witness ==
    /\ Ended
    /\ state.intent = "order_help"
    /\ state.policy_decision # None
    /\ ~state.policy_decision.cancel_allowed
    /\ state.trace.final_message # <<>>

(* C3: every trace the pipeline returns is accepted by the trace schema, on *)
(* the discount-guardrail path as on the others.                            *)
C3_TraceIsValid == Ended => validate_trace(state.trace)

(* C4: a request that names an existing order id with an email that is not  *)
(* its owner's has the outcome of a request that names an id no order has:  *)
(* order_lookup returns nothing, order_cancel answers order_not_found with  *)
(* one fixed message, and the run shows no order evidence and one fixed     *)
(* reply.                                                                   *)
C4_NoLeakOnLookup ==
    /\ (call.tool = "order_lookup" /\ ~Owned(call.args.order_id, call.args.email)) =>
            call.returned = None
    /\ (call.tool = "order_cancel" /\ ~Owned(call.args.order_id, call.args.email)) =>
            call.returned =
                [success |-> FALSE,
                 reason |-> "order_not_found",
                 message |-> <<"Order not found with provided ID and email">>]
    /\ (/\ Ended
        /\ state.intent = "order_help"
        /\ OrderMatch(Input) # NoMatch
        /\ EmailMatch(Input) # NoMatch
        /\ ~Owned(OrderMatch(Input), EmailMatch(Input))) =>
            /\ state.trace.evidence = <<>>
            /\ state.trace.policy_decision =
                   [cancel_allowed |-> FALSE,
                    reason |-> "order_not_found",
                    message |-> <<"Order not found with provided ID and email">>,
                    alternatives |-> <<>>]
            /\ state.final_message =
                   <<"Order not found with provided ID and email",
                     "\n\nI can help you with these alternatives:\n",
                     "\nWhich option would you prefer?">>

\* a run has ended that named an existing order with another customer's email
C4_Witness ==
    /\ Ended
    /\ state.intent = "order_help"
    /\ OrderMatch(Input) # NoMatch
    /\ EmailMatch(Input) # NoMatch
    /\ Known(OrderMatch(Input))
    /\ ~Owned(OrderMatch(Input), EmailMatch(Input))
    /\ state.trace.policy_decision.reason = "order_not_found"

\* the filters of product_search, as the claim words them
C5_Passes(p, args) ==
    /\ p.price <= args.price_max
    /\ args.tags # <<>> => Range(args.tags) \cap Range(p.tags) # {}
    /\ args.query # <<>> =>
          \/ Contains(Lower(p.title), Lower(args.query))
          \/ \E t \in Range(p.tags) : Contains(Lower(t), Lower(args.query))

\* the products of the catalog that pass the filters of the direct call
C5_Matching == {p \in Range(products) : C5_Passes(p, call.args)}

(* C5: product_search returns the first at most 2 products of the          *)
(* price-ascending order of the products that pass all filters: at most 2   *)
(* items (2 when 2 or more pass, else all that pass), each one a passing    *)
(* product, in non-decreasing price order, none above the ceiling, and no   *)
(* passing product that was left out is cheaper than a returned one.        *)
C5_SearchIsCheapestTwo ==
    call.tool = "product_search" =>
        LET r == call.returned
        IN  /\ Len(r) <= 2
            /\ Len(r) = Min(2, Cardinality(C5_Matching))
            /\ \A i \in DOMAIN r : r[i] \in C5_Matching /\ r[i].price <= call.args.price_max
            /\ \A i, j \in DOMAIN r : i # j => r[i] # r[j]
            /\ \A i, j \in DOMAIN r : i < j => r[i].price <= r[j].price
            /\ \A p \in C5_Matching \ Range(r) : \A i \in DOMAIN r : r[i].price <= p.price

\* more than two products pass, and the cheapest is not the first of the catalog
C5_Witness ==
    /\ call.tool = "product_search"
    /\ Cardinality(C5_Matching) > 2
    /\ Len(call.returned) = 2
    /\ call.args.query # <<>>
    /\ call.args.tags # <<>>
    /\ \E i \in DOMAIN products :
          /\ products[i] \in C5_Matching
          /\ products[i] \notin Range(call.returned)
          /\ \A j \in DOMAIN products : products[j] \in Range(call.returned) => i < j

\* the lower-cased input contains one of these words
C6_HasAny(words) == \E w \in words : Contains(Lower(Input), w)

(* C6: the intent is product_assist iff the text contains a product keyword *)
(* and does not contain "cancel"; otherwise it is order_help iff the text   *)
(* contains an order keyword; otherwise it is other; all case-insensitively.*)
(* So a text with "cancel" and a product keyword is order_help, and the     *)
(* empty text is other.                                                     *)
C6_IntentRule ==
    (pc \in (Nodes \cup {"END"}) \ {"router"}) =>
        LET product == C6_HasAny({<<"d","r","e","s","s">>, <<"p","r","o","d","u","c","t">>, <<"w","e","d","d","i","n","g">>, <<"m","i","d","i">>,
                                  <<"s","i","z","e">>, <<"p","r","i","c","e">>, <<"e","t","a">>, <<"u","n","d","e","r">>})
            order == C6_HasAny({<<"c","a","n","c","e","l">>, <<"o","r","d","e","r">>, <<"r","e","f","u","n","d">>})
            cancel == C6_HasAny({<<"c","a","n","c","e","l">>})
        IN  /\ state.intent = "product_assist" <=> (product /\ ~cancel)
            /\ ~(product /\ ~cancel) => (state.intent = "order_help" <=> order)
            /\ (~(product /\ ~cancel) /\ ~order) => state.intent = "other"
            /\ (product /\ cancel) => state.intent = "order_help"
            /\ Input = <<>> => state.intent = "other"

\* a text with "Cancel" and a product keyword has been classified
C6_Witness ==
    /\ pc = "tool_selector"
    /\ Contains(Input, <<"C","a","n","c","e","l">>)
    /\ Contains(Input, <<"m","i","d","i">>)
    /\ state.intent = "order_help"

\* the five stages in their order
C7_Stages == <<"router", "tool_selector", "execute_tools", "policy_guard", "responder">>

\* what the stage to run next gives in the current state
C7_Pending ==
    CASE pc = "router" -> router_node(state)
      [] pc = "tool_selector" -> tool_selector_node(state)
      [] pc = "execute_tools" -> execute_tools_node(state)
      [] pc = "policy_guard" -> policy_guard_node(state)
      [] pc = "responder" -> responder_node(state)

\* the stage to run next does not fail: it returns a dictionary of fields of the
\* state, every value of which is there, and the graph has a node to go on to
C7_CanRun ==
    /\ DOMAIN C7_Pending.returns \subseteq DOMAIN state
    /\ DOMAIN C7_Pending.returns # {}
    /\ \A f \in DOMAIN C7_Pending.returns :
          C7_Pending.returns[f] = Merge(state, C7_Pending.returns)[f]
    /\ Len(C7_Pending.calls) >= 0
    /\ Edges[pc] \in Nodes \cup {"END"}

\* what has run is a prefix of the five stages, and the stage to run next is the
\* one after the prefix and can run; a run that has ended has run all five and
\* has produced its trace and its reply
C7_Prefix ==
    /\ pc \in Nodes \cup {"idle", "END"}
    /\ Len(executed) <= Len(C7_Stages)
    /\ executed = SubSeq(C7_Stages, 1, Len(executed))
    /\ pc \in Nodes =>
          /\ Len(executed) < Len(C7_Stages)
          /\ pc = C7_Stages[Len(executed) + 1]
          /\ C7_CanRun
    /\ Ended =>
          /\ executed = C7_Stages
          /\ state.trace # InitialState(Input).trace
          /\ state.trace.intent = state.intent
          /\ state.final_message # <<>>

(* C7: every run executes the five stages once each in the order router,    *)
(* tool_selector, execute_tools, policy_guard, responder, none skipped,     *)
(* repeated or reordered: what has run is always a prefix of that order,    *)
(* the only step of a run that has not ended is its next stage, which can   *)
(* run, so the run ends after five steps, with its trace and its reply      *)
(* produced.                                                                *)
C7_StagesInOrder ==
    /\ []C7_Prefix
    /\ [][(pc \in Nodes) =>
            (/\ executed' = Append(executed, pc)
             /\ pc' = IF Len(executed') < Len(C7_Stages)
                      THEN C7_Stages[Len(executed') + 1]
                      ELSE "END")]_vars

C7_Witness == Ended /\ executed = C7_Stages /\ state.intent = "other"

\* the fields of the state each stage writes
C8_Writes ==
    [router |-> {"intent"},
     tool_selector |-> {"tools_called"},
     execute_tools |-> {"evidence"},
     policy_guard |-> {"policy_decision"},
     responder |-> {"trace", "final_message"}]

\* the fields of the state
C8_Fields ==
    {"messages", "intent", "tools_called", "evidence", "policy_decision",
     "final_message", "trace"}

(* C8: a stage changes no field of the state but its own (intent: router,   *)
(* tools_called: tool selector, evidence: execute_tools, policy_decision:   *)
(* policy guard, trace and final_message: responder), so that no field is   *)
(* changed after its stage has run and the input message is never changed.  *)
C8_SingleWriter ==
    [][(pc \in Nodes) =>
          (/\ DOMAIN state' = C8_Fields
           /\ \A f \in C8_Fields \ C8_Writes[pc] : state'[f] = state[f])]_vars

\* a run has ended in which every stage gave its field a new value
C8_Witness ==
    /\ Ended
    /\ state.intent # ""
    /\ state.tools_called # <<>>
    /\ state.evidence # <<>>
    /\ state.policy_decision # None
    /\ state.final_message # <<>>
    /\ state.trace # InitialState(Input).trace

(* C9: no step writes the product list or the order list, and a request     *)
(* that is repeated (same text, same reference time) ends with the trace    *)
(* and the reply of the first run; so an order whose cancellation was       *)
(* allowed is found again by the repeated request's lookup.                 *)
C9_StoreIsReadOnly ==
    /\ [][products' = products /\ orders' = orders]_vars
    /\ []((Ended /\ last # None) =>
             /\ Outcome(state) = last
             /\ Get(last.trace.policy_decision, "cancel_allowed", FALSE) =>
                   /\ Owned(OrderMatch(Input), EmailMatch(Input))
                   /\ \E i \in DOMAIN state.evidence : state.evidence[i].type = "order")

\* a request whose cancellation was allowed has been repeated
C9_Witness ==
    /\ Ended
    /\ last # None
    /\ last.trace.policy_decision # None
    /\ Get(last.trace.policy_decision, "cancel_allowed", FALSE)

\* the text pattern of the discount guardrail
C10_Trigger ==
    /\ Contains(Lower(Input), <<"d","i","s","c","o","u","n","t"," ","c","o","d","e">>)
    /\ \/ Contains(Lower(Input), <<"d","o","e","s","n","'","t"," ","e","x","i","s","t">>)
       \/ Contains(Lower(Input), <<"n","o","n","-","e","x","i","s","t","e","n","t">>)
       \/ Contains(Lower(Input), <<"f","a","k","e">>)

\* the refusal record
C10_Refusal == [refuse |-> TRUE, reason |-> "invalid_discount_request"]

(* C10: the policy decision is the refusal record exactly when the intent   *)
(* is other and the lower-cased text has "discount code" with one of        *)
(* "doesn't exist", "non-existent", "fake"; the reply is then the fixed     *)
(* refusal with its three offers and the run invoked no store method.  Any  *)
(* other text of intent other has no decision and the fixed helper reply.   *)
C10_DiscountGuardrail ==
    Ended =>
        /\ state.policy_decision = C10_Refusal <=> (state.intent = "other" /\ C10_Trigger)
        /\ state.trace.policy_decision = state.policy_decision
        /\ (state.intent = "other" /\ C10_Trigger) =>
              /\ invoked = <<>>
              /\ state.final_message =
                     <<"I can't provide non-existent discount codes, but I can suggest these legitimate offers:\n",
                       Bullet, " Sign up for our newsletter for 10% off your first order\n",
                       Bullet, " Follow us on social media for exclusive deals\n",
                       Bullet, " Check our current promotions page for active discounts">>
        /\ (state.intent = "other" /\ ~C10_Trigger) =>
              /\ state.policy_decision = None
              /\ state.final_message =
                     <<"I'm here to help with product searches and order management. How can I assist you today?">>

C10_Witness == Ended /\ state.policy_decision = C10_Refusal /\ invoked = <<>>

\* the alternatives of a refused cancellation
C11_Alternatives ==
    <<"Update shipping address", "Convert to store credit", "Connect with customer support">>

\* decision d carries the fixed list when its reason is policy_violation, and has
\* no alternatives otherwise
C11_Carries(d) ==
    IF d.reason = "policy_violation"
    THEN "alternatives" \in DOMAIN d /\ d.alternatives = C11_Alternatives
    ELSE "alternatives" \notin DOMAIN d

\* the reply offers a list of alternatives
C11_Offered == "\n\nI can help you with these alternatives:\n" \in Range(state.final_message)

(* C11: a cancellation decision has alternatives only when its reason is    *)
(* policy_violation, and then exactly the three fixed ones in their order;  *)
(* an order_not_found and a within_policy decision have none.  This holds   *)
(* of what order_cancel returns and of the policy_decision of the trace,    *)
(* and the reply offers a list of alternatives only for policy_violation.   *)
C11_AlternativesOnlyForViolation ==
    /\ call.tool = "order_cancel" => C11_Carries(call.returned)
    /\ (Ended /\ state.intent = "order_help" /\ state.trace.policy_decision # None) =>
          /\ C11_Carries(state.trace.policy_decision)
          /\ C11_Offered <=> state.trace.policy_decision.reason = "policy_violation"

(* The part of C11 that does hold: what order_cancel returns, and the       *)
(* policy_violation and within_policy decisions of the trace.               *)
AlternativesOfTheEngine ==
    /\ call.tool = "order_cancel" => C11_Carries(call.returned)
    /\ (/\ Ended
        /\ state.intent = "order_help"
        /\ state.trace.policy_decision # None
        /\ state.trace.policy_decision.reason # "order_not_found") =>
          /\ C11_Carries(state.trace.policy_decision)
          /\ C11_Offered <=> state.trace.policy_decision.reason = "policy_violation"

\* product_search is planned for the run
C12_Planned == "product_search" \in Range(state.tools_called)

\* the integers of the occurrences of "under <integer>" in the text, whatever the
\* case of its letters: "under", then characters that are neither letters nor
\* digits nor a line break (spaces, a currency sign), then the digits
C12_Integers ==
    LET text == Lower(Input)
        digitsFrom(i) == RunEnd(text, i, {c \in Range(text) : c \notin WordSet /\ c # "\n"}) + 1
    IN  {ToInt(SubSeq(text, digitsFrom(i + 5), RunEnd(text, digitsFrom(i + 5), DigitSet))) :
            i \in {k \in DOMAIN text :
                     /\ MatchAt(text, <<"u","n","d","e","r">>, k)
                     /\ digitsFrom(k + 5) <= Len(text)
                     /\ text[digitsFrom(k + 5)] \in DigitSet}}

(* C12: when product_search is planned, the price ceiling execute_tools     *)
(* passes to the store is the integer of an occurrence of "under <integer>" *)
(* in the text, and is 1000 when the text has no such occurrence: digits    *)
(* elsewhere in the text and an "under" with no integer after it leave the  *)
(* ceiling at 1000.                                                         *)
C12_CeilingIsUnderInteger ==
    (pc \in {"policy_guard", "responder", "END"} /\ C12_Planned) =>
        IF C12_Integers = {}
        THEN PriceMax(Input) = 1000
        ELSE PriceMax(Input) \in C12_Integers

(* The part of C12 that does hold: the ceiling is 1000 when no digit comes  *)
(* after an "under" of the text, wherever else the text has digits, and is  *)
(* the integer of "under <integer>" when that is the first "under".         *)
CeilingWithoutDigitsAfterUnder ==
    (pc \in {"policy_guard", "responder", "END"} /\ C12_Planned) =>
        LET text == Lower(Input)
            unders == {k \in DOMAIN text : MatchAt(text, <<"u","n","d","e","r">>, k)}
            after(k) == {d \in (k + 5)..Len(text) : text[d] \in DigitSet}
        IN  /\ (\A k \in unders : after(k) = {}) => PriceMax(Input) = 1000
            /\ (unders # {} /\ MatchAt(text, <<"u","n","d","e","r"," ","$","1","2","0">>, SetMin(unders))) => PriceMax(Input) = 120

\* the order items and the product items of the evidence
C13_OrderItems == SelectSeq(state.evidence, LAMBDA e : e.type = "order")
C13_ProductItems == SelectSeq(state.evidence, LAMBDA e : e.type = "product")

\* the policy decision is one about an order of the store
C13_Decided ==
    /\ state.policy_decision # None
    /\ Get(state.policy_decision, "reason", "") \in {"within_policy", "policy_violation"}

(* C13: once the policy guard has run on an order_help text, the evidence   *)
(* has an order item exactly when the policy decision is there with reason  *)
(* within_policy or policy_violation; the evidence is then that one item,   *)
(* the order of the store with the id and the email of the text, for which  *)
(* order_cancel gives the decision's reason.  With no decision or with      *)
(* order_not_found the evidence is empty.  There is no order item when the  *)
(* intent is product_assist or other, and no product item when it is        *)
(* order_help or other.                                                     *)
C13_EvidenceAgreesWithDecision ==
    (pc \in {"responder", "END"}) =>
        /\ state.intent = "order_help" =>
              /\ C13_OrderItems # <<>> <=> C13_Decided
              /\ C13_Decided =>
                    /\ Len(state.evidence) = 1
                    /\ state.evidence[1].data \in Range(orders)
                    /\ state.evidence[1].data.order_id = OrderMatch(Input)
                    /\ state.evidence[1].data.email = EmailMatch(Input)
                    /\ state.policy_decision.reason =
                           order_cancel(orders, state.evidence[1].data.order_id,
                                        state.evidence[1].data.email, current_time).reason
              /\ ~C13_Decided => state.evidence = <<>>
        /\ state.intent \in {"product_assist", "other"} => C13_OrderItems = <<>>
        /\ state.intent \in {"order_help", "other"} => C13_ProductItems = <<>>

C13_Witness ==
    /\ Ended
    /\ state.intent = "order_help"
    /\ C13_OrderItems # <<>>
    /\ state.policy_decision # None
    /\ state.policy_decision.reason = "within_policy"

====
